---- MODULE Spec2Model ----
(***************************************************************************)
(* The chain server of RetrievalAugmentedGeneration/common/server.py:      *)
(* startup discovery of the example class (import_example) and the three   *)
(* request handlers upload_document, generate_answer and document_search.  *)
(*                                                                         *)
(* The example class, the file system and the HTTP framework are the       *)
(* environment: every call into them is a nondeterministic choice over     *)
(* the outcomes the call can have (return or raise).                       *)
(***************************************************************************)
EXTENDS Integers, Sequences, FiniteSets, TLC

VARIABLES
    app_example,   \* app.example: the class bound at startup, NoClass before
    instances,     \* how many times the bound class has been instantiated
    inbox,         \* the requests that have arrived and wait for their handler, oldest first
    disk,          \* the paths of the files written so far
    run,           \* the most recent handler run: request, calls made, response
    stream,        \* consumption of the generator held by the latest streamed response
    tree,          \* the files os.walk(EXAMPLE_DIR) yields, in scan order
    fi,            \* import_example: index of the file being scanned
    ci,            \* import_example: index of the class being examined, 0 = file not loaded
    pc,            \* import_example: "scan", "bound" or "fatal"
    examined,      \* import_example: the <<file, class name>> pairs examined so far
    startupError   \* import_example: the exception that ended startup, or "none"

vars == <<app_example, instances, inbox, disk, run, stream, tree, fi, ci, pc, examined, startupError>>

serveVars == <<app_example, instances, inbox, disk, run, stream>>
scanVars == <<tree, fi, ci, pc, examined, startupError>>

-----------------------------------------------------------------------------
(* Bounds of the model. *)

MaxMsgs == 2        \* messages in one conversation request
MaxNameLen == 2     \* characters in an uploaded file's name
MaxChunks == 1      \* chunks a chain's generator yields before it ends or raises
MaxInFlight == 2    \* requests in flight at once
MaxFiles == 2       \* files under EXAMPLE_DIR

-----------------------------------------------------------------------------
(* Python values. Optional[T] is a sequence of length 0 (None) or 1. *)

None == <<>>
Some(x) == <<x>>

NoClass == [file |-> 0, name |-> "None"]
NoRun == [endpoint |-> "none"]
NoStream == [state |-> "none", inst |-> 0, sent |-> 0, exc |-> "none"]

RECURSIVE SeqsUpTo(_, _)
SeqsUpTo(S, n) ==
    IF n = 0 THEN {<<>>}
    ELSE LET shorter == SeqsUpTo(S, n - 1)
         IN shorter \cup {Append(s, x) : s \in {t \in shorter : Len(t) = n - 1}, x \in S}

Range(s) == {s[i] : i \in 1..Len(s)}

-----------------------------------------------------------------------------
(* /generate: the Message and Prompt types. *)

Roles == {"user", "assistant", "system"}
Contents == {"q1", "q2"}
Messages == [role : Roles, content : Contents]

\* Fields of Prompt in declaration order; floats are in tenths (0.2 is 2).
PromptFields ==
    <<"messages", "use_knowledge_base", "temperature", "top_p", "max_tokens",
      "seed", "bad", "stop", "stream">>

RequiredFields == {"messages", "use_knowledge_base"}
OptionalFields == Range(PromptFields) \ RequiredFields

FieldDefault(f) ==
    CASE f = "temperature" -> 2
      [] f = "top_p" -> 7
      [] f = "max_tokens" -> 1024
      [] f = "seed" -> 42
      [] f = "bad" -> None
      [] f = "stop" -> None
      [] f = "stream" -> FALSE

\* A value a client may send for an optional field, different from its default.
FieldGiven(f) ==
    CASE f = "temperature" -> 9
      [] f = "top_p" -> 5
      [] f = "max_tokens" -> 256
      [] f = "seed" -> 7
      [] f = "bad" -> Some(<<"w">>)
      [] f = "stop" -> Some(<<"s">>)
      [] f = "stream" -> TRUE

\* The optional fields a request body states: none, some or all of them.
ProvidedChoices ==
    {{}, {"temperature", "bad", "stream"}, OptionalFields} \cup {{f} : f \in OptionalFields}

Bodies ==
    {[f \in RequiredFields \cup given |->
        CASE f = "messages" -> msgs
          [] f = "use_knowledge_base" -> kb
          [] OTHER -> FieldGiven(f)] :
     msgs \in SeqsUpTo(Messages, MaxMsgs), kb \in BOOLEAN, given \in ProvidedChoices}

\* Prompt(**body): every field of the model, stated or defaulted.
Prompt(body) ==
    [f \in Range(PromptFields) |->
        IF f \in DOMAIN body THEN body[f] ELSE FieldDefault(f)]

-----------------------------------------------------------------------------
(* Exceptions the example class may raise, and the chunks the server sends. *)

Exceptions == {"MilvusException", "MilvusUnavailableException", "Exception"}

\* except (MilvusException, MilvusUnavailableException)
IsMilvus(e) == e \in {"MilvusException", "MilvusUnavailableException"}

MilvusSentence ==
    "Error from milvus server. Please ensure you have ingested some documents. Please check chain-server logs for more details."
GenericSentence ==
    "Error from chain server. Please check chain-server logs for more details."

\* The chunk of the except clause that catches e.
ErrorChunk(e) == IF IsMilvus(e) THEN MilvusSentence ELSE GenericSentence

\* The clause that catches e logs an error before it answers.
ErrorLog(e) == IF IsMilvus(e) THEN "milvus" ELSE "generate"

-----------------------------------------------------------------------------
(* generate_answer *)

UserIndexes(history) == {i \in 1..Len(history) : history[i].role = "user"}

LastUserIndex(history) ==
    CHOOSE i \in UserIndexes(history) : \A j \in UserIndexes(history) : j <= i

\* next((message.content for message in reversed(chat_history)
\*       if message.role == 'user'), None)
LastUserMessage(history) ==
    IF UserIndexes(history) = {} THEN None
    ELSE Some(history[LastUserIndex(history)].content)

DeleteAt(s, i) == [j \in 1..(Len(s) - 1) |-> IF j < i THEN s[j] ELSE s[j + 1]]

\* Faulty variant: the scan runs forward and deletes the first user message.
RemoveFirstUser(history) ==
    IF UserIndexes(history) = {} THEN history
    ELSE DeleteAt(history, CHOOSE i \in UserIndexes(history) :
                               \A j \in UserIndexes(history) : i <= j)

\* for i in reversed(range(len(chat_history))): delete the first user message met
RemoveLastUser(history) ==
    IF UserIndexes(history) = {} THEN history
    ELSE DeleteAt(history, LastUserIndex(history))

\* Faulty variant: only 'messages' is left out of the settings.
LlmSettingsKeepsFlag(prompt) ==
    LET keys == {f \in DOMAIN prompt : f \notin {"messages"}}
    IN [f \in keys |-> prompt[f]]

\* {key: value for key, value in vars(prompt).items()
\*  if key not in ['messages', 'use_knowledge_base']}
LlmSettings(prompt) ==
    LET keys == {f \in DOMAIN prompt : f \notin {"messages", "use_knowledge_base"}}
    IN [f \in keys |-> prompt[f]]

\* Faulty variant: the two branches are swapped.
ChainForSwapped(prompt) == IF prompt["use_knowledge_base"] THEN "llm_chain" ELSE "rag_chain"

\* if prompt.use_knowledge_base: rag_chain, else llm_chain
ChainFor(prompt) == IF prompt["use_knowledge_base"] THEN "rag_chain" ELSE "llm_chain"

\* Faulty variant: app.example holds one object and every request is handed that object.
SharedInstance(n) == 1

\* app.example(): the bound class is called, which makes one more instance.
Instantiate(n) == n + 1

NewInstance(k) == [op |-> "new", inst |-> k]

ChainCall(chain, k, query, history, settings) ==
    [op |-> chain, inst |-> k, query |-> query, chat_history |-> history,
     llm_settings |-> settings]

ListResponse(chunk) ==
    [status |-> 200, media |-> "text/event-stream", source |-> "list", chunks |-> <<chunk>>]

GeneratorResponse ==
    [status |-> 200, media |-> "text/event-stream", source |-> "generator", chunks |-> <<>>]

\* What the example class does for one request: its constructor raises, or it
\* returns and the chain then hands back its generator or raises when called.
GenerateOutcomes ==
    {[ctor |-> e, chain |-> "none"] : e \in Exceptions}
    \cup {[ctor |-> "ok", chain |-> c] : c \in {"generator"} \cup Exceptions}

GenerateRun(body, calls, raised, resp) ==
    [endpoint |-> "generate", request |-> body, calls |-> calls, raised |-> raised,
     logged |-> IF raised = "none" THEN "none" ELSE ErrorLog(raised), resp |-> resp]

Generate(body, ctor, outcome) ==
    LET prompt0 == Prompt(body)
        chat_history0 == prompt0["messages"]
        last_user_message == LastUserMessage(chat_history0)
        chat_history == RemoveLastUser(chat_history0)
        \* chat_history is prompt.messages itself: the deletion shows in vars(prompt)
        prompt == [prompt0 EXCEPT !["messages"] = chat_history]
        llm_settings == LlmSettings(prompt)
        k == Instantiate(instances)
        call == ChainCall(ChainFor(prompt), k, last_user_message, chat_history, llm_settings)
    IN /\ IF ctor # "ok"
          THEN \* app.example() raises inside the try
               /\ run' = GenerateRun(body, <<>>, ctor, ListResponse(ErrorChunk(ctor)))
               /\ UNCHANGED <<instances, stream>>
          ELSE IF outcome # "generator"
          THEN \* the chain raises when called
               /\ run' = GenerateRun(body, <<NewInstance(k), call>>, outcome,
                                     ListResponse(ErrorChunk(outcome)))
               /\ instances' = k
               /\ UNCHANGED stream
          ELSE \* the chain returns its generator: StreamingResponse(generator)
               /\ run' = GenerateRun(body, <<NewInstance(k), call>>, "none", GeneratorResponse)
               /\ instances' = k
               /\ stream' = [state |-> "open", inst |-> k, sent |-> 0, exc |-> "none"]

Arrived(endpoint) ==
    /\ pc = "bound"
    /\ inbox # <<>>
    /\ Head(inbox).endpoint = endpoint

GenerateAnswer ==
    /\ Arrived("generate")
    /\ \E o \in GenerateOutcomes : Generate(Head(inbox).body, o.ctor, o.chain)
    /\ inbox' = Tail(inbox)
    /\ UNCHANGED <<app_example, disk>>
    /\ UNCHANGED scanVars

\* The server takes the next chunk from the generator and sends it.
StreamChunk ==
    /\ stream.state = "open"
    /\ stream.sent < MaxChunks
    /\ stream' = [stream EXCEPT !.sent = @ + 1]
    /\ UNCHANGED <<app_example, instances, inbox, disk, run>>
    /\ UNCHANGED scanVars

\* The generator is exhausted: the response body ends.
StreamEnd ==
    /\ stream.state = "open"
    /\ stream' = [stream EXCEPT !.state = "done"]
    /\ UNCHANGED <<app_example, instances, inbox, disk, run>>
    /\ UNCHANGED scanVars

\* The generator raises while the server iterates it, after generate_answer returned.
StreamRaise ==
    /\ stream.state = "open"
    /\ \E e \in Exceptions : stream' = [stream EXCEPT !.state = "raised", !.exc = e]
    /\ UNCHANGED <<app_example, instances, inbox, disk, run>>
    /\ UNCHANGED scanVars

-----------------------------------------------------------------------------
(* upload_document *)

\* A file name is a sequence of characters; "/" is the path separator.
FileChars == {"a", "/"}
FileNames == SeqsUpTo(FileChars, MaxNameLen)

\* upload_folder = "uploaded_files": one path component, kept as one element.
UploadFolder == <<"uploaded_files">>

\* Faulty variant: the file name is used as the client sent it.
BasenameSkipped(name) == name

\* os.path.basename: what follows the last separator.
Basename(name) ==
    LET slashes == {i \in 1..Len(name) : name[i] = "/"}
        last == IF slashes = {} THEN 0 ELSE CHOOSE i \in slashes : \A j \in slashes : j <= i
    IN SubSeq(name, last + 1, Len(name))

\* os.path.join(a, b): an absolute b replaces a.
Join(a, b) ==
    IF b # <<>> /\ b[1] = "/" THEN b
    ELSE IF a = <<>> \/ a[Len(a)] = "/" THEN a \o b
    ELSE a \o <<"/">> \o b

\* Faulty variant: the check of the file name is gone.
NoFileCheckDropped(filename) == FALSE

\* if not file.filename
NoFileProvided(filename) == filename = <<>>

\* Faulty variant: the name the client sent is handed to the ingestion.
IngestArgumentsOriginalName(file_path, upload_file, filename) == <<file_path, filename>>

\* app.example().ingest_docs(file_path, upload_file)
IngestArguments(file_path, upload_file, filename) == <<file_path, upload_file>>

\* The first step of the try block that raises, or "ok" when none does.
UploadOutcomes == {"ok", "mkdir", "open", "copy", "ctor", "ingest"}

\* str(e) of the exception a step raises.
FailureMessage(step) ==
    CASE step = "mkdir" -> "mkdir failed"
      [] step = "open" -> "open failed"
      [] step = "copy" -> "copy failed"
      [] step = "ctor" -> "constructor failed"
      [] step = "ingest" -> "ingestion failed"

ParseError == "Error parsing uploaded filename."

JsonResponse(message, status) == [status |-> status, message |-> message]

UploadRun(request, calls, raised, resp) ==
    [endpoint |-> "upload", request |-> request, calls |-> calls, raised |-> raised,
     logged |-> IF raised = "none" THEN "none" ELSE "uploadDocument", resp |-> resp]

Upload(request, outcome) ==
    LET filename == request.filename
        upload_file == Basename(filename)
        file_path == Join(UploadFolder, upload_file)
        k == Instantiate(instances)
        reached(step) ==
            \/ outcome = "ok"
            \/ \E i, j \in 1..5 :
                   /\ i <= j
                   /\ <<"mkdir", "open", "copy", "ctor", "ingest">>[i] = step
                   /\ <<"mkdir", "open", "copy", "ctor", "ingest">>[j] = outcome
        done(step) == reached(step) /\ outcome # step
        calls ==
            (IF done("mkdir") THEN <<[op |-> "mkdir", path |-> UploadFolder]>> ELSE <<>>)
            \o (IF done("open")
                THEN <<[op |-> "write", path |-> file_path, complete |-> done("copy")]>>
                ELSE <<>>)
            \o (IF done("ctor") THEN <<NewInstance(k)>> ELSE <<>>)
            \o (IF reached("ingest")
                THEN <<[op |-> "ingest_docs", inst |-> k,
                        args |-> IngestArguments(file_path, upload_file, filename)]>>
                ELSE <<>>)
    IN IF NoFileProvided(filename)
       THEN /\ run' = UploadRun(request, <<>>, "none", JsonResponse("No files provided", 200))
            /\ UNCHANGED <<instances, disk>>
       ELSE IF upload_file = <<>>
       THEN \* raise RuntimeError, caught by except Exception
            /\ run' = UploadRun(request, <<>>, "RuntimeError", JsonResponse(ParseError, 500))
            /\ UNCHANGED <<instances, disk>>
       ELSE /\ run' = UploadRun(request, calls,
                                IF outcome = "ok" THEN "none" ELSE "Exception",
                                IF outcome = "ok"
                                THEN JsonResponse("File uploaded successfully", 200)
                                ELSE JsonResponse(FailureMessage(outcome), 500))
            \* open(file_path, "wb") makes or empties the file; copyfileobj fills it
            /\ disk' = IF done("open")
                       THEN (file_path :> (IF done("copy") THEN request.data ELSE "partial"))
                            @@ disk
                       ELSE disk
            /\ instances' = IF done("ctor") THEN k ELSE instances

UploadDocument ==
    /\ Arrived("upload")
    /\ \E o \in UploadOutcomes : Upload(Head(inbox), o)
    /\ inbox' = Tail(inbox)
    /\ UNCHANGED <<app_example, stream>>
    /\ UNCHANGED scanVars

-----------------------------------------------------------------------------
(* document_search *)

\* Results an example class may hand back: lists of documents.
SearchResults == {<<>>, <<[source |-> "doc1"]>>, <<[source |-> "doc1"], [source |-> "doc2"]>>}

\* What the example class is and does for one search request.
SearchOutcomes ==
    {[ctor |-> c, has |-> h, callable |-> cl, search |-> r] :
        c \in {"ok", "raises"}, h \in BOOLEAN, cl \in BOOLEAN,
        r \in {Some(x) : x \in SearchResults} \cup {None}}

\* Faulty variant: an exception is not caught and ends as an error status.
SearchFailedPropagates(e) == [status |-> 500, body |-> <<>>, logged |-> "none"]

\* except Exception: logger.error(...); return []
SearchFailed(e) == [status |-> 200, body |-> <<>>, logged |-> "documentSearch"]

SearchRun(request, env, calls, raised, answer) ==
    [endpoint |-> "search", request |-> request, env |-> env, calls |-> calls,
     raised |-> raised, logged |-> answer.logged,
     resp |-> [status |-> answer.status, body |-> answer.body]]

Search(request, env) ==
    LET k == Instantiate(instances)
        call == [op |-> "document_search", inst |-> k,
                 args |-> <<request.content, request.num_docs>>]
    IN IF env.ctor # "ok"
       THEN /\ run' = SearchRun(request, env, <<>>, "Exception", SearchFailed("Exception"))
            /\ UNCHANGED instances
       ELSE /\ instances' = k
            /\ IF ~(env.has /\ env.callable)
               THEN run' = SearchRun(request, env, <<NewInstance(k)>>, "NotImplementedError",
                                     SearchFailed("NotImplementedError"))
               ELSE IF env.search = None
               THEN run' = SearchRun(request, env, <<NewInstance(k), call>>, "Exception",
                                     SearchFailed("Exception"))
               ELSE run' = SearchRun(request, env, <<NewInstance(k), call>>, "none",
                                     [status |-> 200, body |-> env.search[1], logged |-> "none"])

DocumentSearch ==
    /\ Arrived("search")
    /\ \E env \in SearchOutcomes : Search(Head(inbox), env)
    /\ inbox' = Tail(inbox)
    /\ UNCHANGED <<app_example, disk, stream>>
    /\ UNCHANGED scanVars

\* A running server: import_example returned, the class is bound and was
\* instantiated once by the probe of line 111.
BoundClasses == {[file |-> 1, name |-> "QAChatbot"]}

GenerateRequests == {[endpoint |-> "generate", body |-> b] : b \in Bodies}

Serving(requests) ==
    /\ app_example \in BoundClasses
    /\ instances = 1
    /\ inbox \in requests
    /\ disk = <<>>
    /\ run = NoRun
    /\ stream = NoStream
    /\ tree = <<>>
    /\ fi = 1
    /\ ci = 0
    /\ pc = "bound"
    /\ examined = <<>>
    /\ startupError = "none"

NextGenerate == GenerateAnswer \/ StreamChunk \/ StreamEnd \/ StreamRaise

InitGenerate == Serving({<<r>> : r \in GenerateRequests})

SpecGenerate == InitGenerate /\ [][NextGenerate]_vars

\* Up to MaxInFlight requests, at least one.
Batches(requests) == SeqsUpTo(requests, MaxInFlight) \ {<<>>}

UploadRequests == {[endpoint |-> "upload", filename |-> n, data |-> "bytes"] : n \in FileNames}

InitUpload == Serving(Batches(UploadRequests))
NextUpload == UploadDocument
SpecUpload == InitUpload /\ [][NextUpload]_vars

\* num_docs defaults to 4
SearchRequests ==
    {[endpoint |-> "search", content |-> c, num_docs |-> n] : c \in Contents, n \in {1, 4}}

InitSearch == Serving(Batches(SearchRequests))
NextSearch == DocumentSearch
SpecSearch == InitSearch /\ [][NextSearch]_vars

-----------------------------------------------------------------------------
(* import_example *)

\* Names of the classes a module may hold, as getmembers sorts them.
ClassNames == <<"BaseExample", "MultiTurnChatbot", "QAChatbot">>

RequiredMethods == {"ingest_docs", "llm_chain", "rag_chain"}

\* What a class of a module may be: dir(cls), and what cls() does.
ClassKinds ==
    {[dir |-> RequiredMethods, ctor |-> "ok"],
     [dir |-> RequiredMethods, ctor |-> "raises"],
     [dir |-> {"ingest_docs", "llm_chain"}, ctor |-> "ok"]}

\* The base class, where a module imports it, has the three methods.
KindsOf(name) ==
    IF name = "BaseExample" THEN {[dir |-> RequiredMethods, ctor |-> "ok"]} ELSE ClassKinds

RECURSIVE MembersFrom(_)
\* The lists of classes a module may hold, by name from ClassNames[i] on.
MembersFrom(i) ==
    IF i > Len(ClassNames) THEN {<<>>}
    ELSE LET rest == MembersFrom(i + 1)
         IN rest \cup {<<[name |-> ClassNames[i], dir |-> k.dir, ctor |-> k.ctor]>> \o r :
                          k \in KindsOf(ClassNames[i]), r \in rest}

\* A file of the tree: not a .py file, a .py file whose execution raises, or a module.
Files ==
    {[py |-> FALSE, loads |-> FALSE, classes |-> <<>>],
     [py |-> TRUE, loads |-> FALSE, classes |-> <<>>]}
    \cup {[py |-> TRUE, loads |-> TRUE, classes |-> m] : m \in MembersFrom(1)}

\* Faulty variant: a class with two of the three methods passes.
QualifiesWithoutRagChain(cls) == {"ingest_docs", "llm_chain"} \subseteq cls.dir

\* set(["ingest_docs", "llm_chain", "rag_chain"]).issubset(set(dir(cls)))
Qualifies(cls) == RequiredMethods \subseteq cls.dir

\* if name == "BaseExample": continue
IsBase(name) == name = "BaseExample"

Scanning == pc = "scan" /\ fi <= Len(tree)

\* if not file.endswith(".py"): continue
SkipFile ==
    /\ Scanning
    /\ ci = 0
    /\ ~tree[fi].py
    /\ fi' = fi + 1
    /\ UNCHANGED <<tree, ci, pc, examined, startupError>>
    /\ UNCHANGED serveVars

\* spec.loader.exec_module(module): the module runs, or its exception ends startup
LoadFile ==
    /\ Scanning
    /\ ci = 0
    /\ tree[fi].py
    /\ examined' = Append(examined, <<fi, "module">>)
    /\ IF tree[fi].loads
       THEN ci' = 1 /\ UNCHANGED <<pc, startupError>>
       ELSE pc' = "fatal" /\ startupError' = "ImportError" /\ UNCHANGED ci
    /\ UNCHANGED <<tree, fi>>
    /\ UNCHANGED serveVars

\* One pass of the loop over getmembers(module, isclass).
ExamineClass ==
    /\ Scanning
    /\ ci >= 1
    /\ ci <= Len(tree[fi].classes)
    /\ LET cls == tree[fi].classes[ci]
       IN /\ examined' = Append(examined, <<fi, cls.name>>)
          /\ IF Qualifies(cls) /\ ~IsBase(cls.name)
             THEN IF cls.ctor = "ok"
                  THEN \* example = cls(); app.example = cls; return
                       /\ instances' = instances + 1
                       /\ app_example' = [file |-> fi, name |-> cls.name]
                       /\ pc' = "bound"
                       /\ UNCHANGED <<ci, startupError>>
                  ELSE \* except: raise ValueError
                       /\ pc' = "fatal"
                       /\ startupError' = "ValueError"
                       /\ UNCHANGED <<ci, instances, app_example>>
             ELSE /\ ci' = ci + 1
                  /\ UNCHANGED <<pc, startupError, instances, app_example>>
    /\ UNCHANGED <<tree, fi>>
    /\ UNCHANGED <<inbox, disk, run, stream>>

\* The classes of the module are exhausted: the next file.
EndFile ==
    /\ Scanning
    /\ ci > Len(tree[fi].classes)
    /\ fi' = fi + 1
    /\ ci' = 0
    /\ UNCHANGED <<tree, pc, examined, startupError>>
    /\ UNCHANGED serveVars

\* raise NotImplementedError after the walk
NotFound ==
    /\ pc = "scan"
    /\ fi > Len(tree)
    /\ pc' = "fatal"
    /\ startupError' = "NotImplementedError"
    /\ UNCHANGED <<tree, fi, ci, examined>>
    /\ UNCHANGED serveVars

InitStartup ==
    /\ app_example = NoClass
    /\ instances = 0
    /\ inbox = <<>>
    /\ disk = <<>>
    /\ run = NoRun
    /\ stream = NoStream
    /\ tree \in SeqsUpTo(Files, MaxFiles)
    /\ fi = 1
    /\ ci = 0
    /\ pc = "scan"
    /\ examined = <<>>
    /\ startupError = "none"

NextStartup == SkipFile \/ LoadFile \/ ExamineClass \/ EndFile \/ NotFound

SpecStartup == InitStartup /\ [][NextStartup]_vars

\* The whole service: requests of the three kinds in flight together.
SampleRequests ==
    {[endpoint |-> "generate", body |-> [messages |-> <<[role |-> "user", content |-> "q1"]>>,
                                         use_knowledge_base |-> kb]] : kb \in BOOLEAN}
    \cup {[endpoint |-> "upload", filename |-> n, data |-> "bytes"] : n \in {<<>>, <<"a">>}}
    \cup {[endpoint |-> "search", content |-> "q1", num_docs |-> 4]}

Init == Serving(Batches(SampleRequests))
Next == GenerateAnswer \/ StreamChunk \/ StreamEnd \/ StreamRaise \/ UploadDocument \/ DocumentSearch
Spec == Init /\ [][Next]_vars

-----------------------------------------------------------------------------
(* Reading a run. *)

IsChainCall(c) == c.op \in {"rag_chain", "llm_chain"}
ChainCalls(r) == SelectSeq(r.calls, IsChainCall)

IsGenerateRun == run.endpoint = "generate"
\* The run reached the dispatch: one chain was called.
Dispatched == IsGenerateRun /\ Len(ChainCalls(run)) = 1
TheCall == ChainCalls(run)[1]
RequestMessages == run.request["messages"]

\* What the client has received from the tracked streamed response.
Delivered == [i \in 1..stream.sent |-> "chunk"]

-----------------------------------------------------------------------------
(* C1: when the last message of the request has role user, the chain gets  *)
(* the messages without that last one, in order, as history, and its       *)
(* content as query; when no message has role user, the query is None and  *)
(* the history is the whole message list.                                  *)
C1_QueryAndHistory ==
    Dispatched =>
        LET msgs == RequestMessages
            n == Len(msgs)
        IN /\ (n > 0 /\ msgs[n].role = "user") =>
                  /\ TheCall.chat_history = SubSeq(msgs, 1, n - 1)
                  /\ TheCall.query = Some(msgs[n].content)
           /\ (\A i \in 1..n : msgs[i].role # "user") =>
                  /\ TheCall.chat_history = msgs
                  /\ TheCall.query = None

\* Two user messages with different contents; the last one was taken out.
C1_Witness ==
    /\ Dispatched
    /\ Len(RequestMessages) = 2
    /\ RequestMessages[1].role = "user"
    /\ RequestMessages[2].role = "user"
    /\ RequestMessages[1].content # RequestMessages[2].content
    /\ TheCall.chat_history = <<RequestMessages[1]>>

(* C2 as stated: every generate request invokes exactly one chain, the     *)
(* rag chain when use_knowledge_base is true and the llm chain when it is  *)
(* false, with the query, the remaining history and the settings.          *)
C2_ExactlyOneChainAlways ==
    IsGenerateRun =>
        /\ Len(ChainCalls(run)) = 1
        /\ TheCall.op = (IF run.request["use_knowledge_base"] THEN "rag_chain" ELSE "llm_chain")

(* C2 amended: a generate request whose app.example() returns invokes      *)
(* exactly one chain, rag_chain when use_knowledge_base is true and        *)
(* llm_chain when it is false, on the new instance, with the extracted     *)
(* query, the remaining history and the settings; a request whose          *)
(* app.example() raises invokes no chain.                                  *)
C2_DispatchAfterConstruction ==
    IsGenerateRun =>
        LET constructed == \E i \in 1..Len(run.calls) : run.calls[i].op = "new"
            kb == run.request["use_knowledge_base"]
        IN /\ Len(ChainCalls(run)) = (IF constructed THEN 1 ELSE 0)
           /\ constructed =>
                /\ TheCall.op = (IF kb THEN "rag_chain" ELSE "llm_chain")
                /\ \A i \in 1..Len(run.calls) :
                       run.calls[i].op # (IF kb THEN "llm_chain" ELSE "rag_chain")
                /\ TheCall.inst = run.calls[1].inst
                /\ TheCall.query = LastUserMessage(RequestMessages)
                /\ TheCall.chat_history = RemoveLastUser(RequestMessages)
                /\ DOMAIN TheCall.llm_settings = OptionalFields

\* A request with the flag set reached the rag chain.
C2_Witness ==
    /\ Dispatched
    /\ run.request["use_knowledge_base"]
    /\ TheCall.op = "rag_chain"
    /\ run.raised = "none"

(* C3: every exception raised by the example class while a generate        *)
(* request is served ends as a 200 text stream of exactly one chunk, the   *)
(* milvus sentence for the Milvus exceptions and the generic sentence for  *)
(* the others.                                                             *)
C3_ErrorsInBand ==
    /\ (IsGenerateRun /\ run.raised # "none") =>
           /\ run.resp.status = 200
           /\ run.resp.chunks =
                  <<IF run.raised \in {"MilvusException", "MilvusUnavailableException"}
                    THEN MilvusSentence ELSE GenericSentence>>
    /\ stream.state = "raised" =>
           Delivered =
               <<IF stream.exc \in {"MilvusException", "MilvusUnavailableException"}
                 THEN MilvusSentence ELSE GenericSentence>>

(* C4: the settings passed to the chain have exactly the keys temperature, *)
(* top_p, max_tokens, seed, bad, stop and stream, each with the value the  *)
(* request states or else its default (0.2, 0.7, 1024, 42, None, None,     *)
(* False), whether or not a user message was removed from the history.     *)
C4_SettingsMapping ==
    Dispatched =>
        LET settings == TheCall.llm_settings
            stated(f) == f \in DOMAIN run.request
        IN /\ DOMAIN settings =
                  {"temperature", "top_p", "max_tokens", "seed", "bad", "stop", "stream"}
           /\ \A f \in DOMAIN settings : stated(f) => settings[f] = run.request[f]
           /\ ~stated("temperature") => settings["temperature"] = 2
           /\ ~stated("top_p") => settings["top_p"] = 7
           /\ ~stated("max_tokens") => settings["max_tokens"] = 1024
           /\ ~stated("seed") => settings["seed"] = 42
           /\ ~stated("bad") => settings["bad"] = None
           /\ ~stated("stop") => settings["stop"] = None
           /\ ~stated("stream") => settings["stream"] = FALSE

\* Some fields stated, the others defaulted, and a user message removed.
C4_Witness ==
    /\ Dispatched
    /\ DOMAIN run.request = {"messages", "use_knowledge_base", "temperature", "bad", "stream"}
    /\ Len(TheCall.chat_history) < Len(RequestMessages)
    /\ TheCall.llm_settings["seed"] = 42
    /\ TheCall.llm_settings["temperature"] = 9

-----------------------------------------------------------------------------
(* Reading an upload. *)

IsUploadRun == run.endpoint = "upload"

HasSeparator(name) == \E i \in 1..Len(name) : name[i] = "/"

\* b is the base component of name: what follows its last separator.
IsBaseComponent(b, name) ==
    \E k \in 0..Len(name) :
        /\ k = 0 \/ name[k] = "/"
        /\ \A i \in (k + 1)..Len(name) : name[i] # "/"
        /\ b = SubSeq(name, k + 1, Len(name))

CallsOf(r, op) == {i \in 1..Len(r.calls) : r.calls[i].op = op}

\* The path of the fixed upload directory that holds a file named b.
InUploadDirectory(b) == <<"uploaded_files", "/">> \o b

(* C5: an upload whose file name holds separators writes at most one       *)
(* path, the upload directory joined with the base component of the name;  *)
(* when the base component is empty the answer is status 500 with the      *)
(* message of the RuntimeError, nothing is written and the ingestion is    *)
(* not called.                                                             *)
C5_StoredUnderUploadDirectory ==
    [][(inbox' # inbox /\ run'.endpoint = "upload" /\ HasSeparator(run'.request.filename)) =>
         LET name == run'.request.filename
             touched == {p \in DOMAIN disk' : p \notin DOMAIN disk \/ disk'[p] # disk[p]}
                        \cup {run'.calls[i].path : i \in CallsOf(run', "write")}
         IN /\ \A p \in touched :
                   \E b \in FileNames :
                       /\ IsBaseComponent(b, name)
                       /\ b # <<>>
                       /\ p = InUploadDirectory(b)
            /\ IsBaseComponent(<<>>, name) =>
                   /\ run'.resp = [status |-> 500, message |-> "Error parsing uploaded filename."]
                   /\ disk' = disk
                   /\ CallsOf(run', "write") = {}
                   /\ CallsOf(run', "ingest_docs") = {}
                   /\ instances' = instances]_vars

\* A name with a directory part was stored under its base component.
C5_Witness ==
    /\ IsUploadRun
    /\ run.request.filename = <<"/", "a">>
    /\ run.resp.status = 200
    /\ InUploadDirectory(<<"a">>) \in DOMAIN disk

(* C6: an upload with an empty file name is answered with status 200 and   *)
(* "No files provided"; no file is written, the example class is not       *)
(* instantiated and the ingestion is not called.                           *)
C6_EmptyNameTouchesNothing ==
    [][(inbox' # inbox /\ run'.endpoint = "upload" /\ run'.request.filename = <<>>) =>
         /\ run'.resp = [status |-> 200, message |-> "No files provided"]
         /\ disk' = disk
         /\ instances' = instances
         /\ run'.calls = <<>>
         /\ run'.logged = "none"]_vars

\* An empty name arrived after a file had been stored; the file is still there.
C6_Witness ==
    /\ IsUploadRun
    /\ run.request.filename = <<>>
    /\ run.resp.status = 200
    /\ DOMAIN disk # {}

(* C10 as stated, read on the uploads in which no step raises: an upload   *)
(* whose name has a non-empty base component calls the ingestion exactly   *)
(* once, after the bytes are on disk, with the stored path and the file    *)
(* name as the client sent it, and answers 200 only after the ingestion    *)
(* returned.                                                               *)
C10_IngestsOriginalName ==
    (IsUploadRun /\ ~IsBaseComponent(<<>>, run.request.filename) /\ run.raised = "none") =>
        /\ Cardinality(CallsOf(run, "ingest_docs")) = 1
        /\ \A i \in CallsOf(run, "ingest_docs") :
               /\ \E w \in CallsOf(run, "write") : w < i /\ run.calls[w].complete
               /\ run.calls[i].args[2] = run.request.filename
        /\ run.resp.status = 200 => run.raised = "none"

(* C10 amended: an upload whose name has a non-empty base component calls  *)
(* the ingestion at most once, and exactly once when the directory and the *)
(* file were written and app.example() returned; the call comes after the  *)
(* complete write, and its arguments are the stored path and the base      *)
(* component of the file name, not the name as sent; status 200 is         *)
(* answered only after the ingestion returned without raising.             *)
C10_IngestsBaseName ==
    (IsUploadRun /\ ~IsBaseComponent(<<>>, run.request.filename)) =>
        LET ingests == CallsOf(run, "ingest_docs")
            written == \E w \in CallsOf(run, "write") : run.calls[w].complete
            constructed == CallsOf(run, "new") # {}
        IN /\ Cardinality(ingests) = (IF written /\ constructed THEN 1 ELSE 0)
           /\ \A i \in ingests :
                  /\ \E w \in CallsOf(run, "write") :
                         /\ w < i
                         /\ run.calls[w].complete
                         /\ run.calls[w].path = run.calls[i].args[1]
                         /\ run.calls[w].path \in DOMAIN disk
                  /\ \E b \in FileNames :
                         /\ IsBaseComponent(b, run.request.filename)
                         /\ run.calls[i].args = <<InUploadDirectory(b), b>>
           /\ run.resp.status = 200 => (ingests # {} /\ run.raised = "none")

\* A name with a directory part was ingested under its base component.
C10_Witness ==
    /\ IsUploadRun
    /\ run.request.filename = <<"/", "a">>
    /\ run.resp.status = 200
    /\ \E i \in CallsOf(run, "ingest_docs") :
           run.calls[i].args = <<InUploadDirectory(<<"a">>), <<"a">>>>

-----------------------------------------------------------------------------
(* C7: a search whose example instance has a callable document_search that *)
(* returns gets that result back unchanged; when app.example() raises, the *)
(* attribute is missing or not callable, or the search raises, an error is *)
(* logged and the answer is the empty list, with a success status.         *)
C7_SearchOrEmptyList ==
    run.endpoint = "search" =>
        LET succeeds == /\ run.env.ctor = "ok"
                        /\ run.env.has
                        /\ run.env.callable
                        /\ run.env.search # None
        IN /\ run.resp.status = 200
           /\ succeeds => (run.resp.body = run.env.search[1] /\ run.logged = "none")
           /\ ~succeeds => (run.resp.body = <<>> /\ run.logged = "documentSearch")
           /\ (run.env.ctor = "ok" /\ run.env.has /\ run.env.callable) =>
                  \E i \in CallsOf(run, "document_search") :
                      run.calls[i].args = <<run.request.content, run.request.num_docs>>

\* The search raised and the answer is the empty list.
C7_Witness ==
    /\ run.endpoint = "search"
    /\ run.env.ctor = "ok" /\ run.env.has /\ run.env.callable
    /\ run.env.search = None
    /\ run.resp.body = <<>>
    /\ run.logged = "documentSearch"

-----------------------------------------------------------------------------
(* Reading the tree of import_example. *)

Positions ==
    {<<f, i>> : f \in 1..Len(tree), i \in 1..Len(ClassNames)}

\* The classes of the tree with the three methods that are not the base class.
Candidates ==
    {p \in Positions :
        /\ tree[p[1]].py
        /\ tree[p[1]].loads
        /\ p[2] <= Len(tree[p[1]].classes)
        /\ {"ingest_docs", "rag_chain", "llm_chain"} \subseteq tree[p[1]].classes[p[2]].dir
        /\ tree[p[1]].classes[p[2]].name # "BaseExample"}

Before(p, q) == p[1] < q[1] \/ (p[1] = q[1] /\ p[2] < q[2])

FirstCandidate == CHOOSE c \in Candidates : \A d \in Candidates : d = c \/ Before(c, d)

\* The .py files whose execution raises.
BrokenFiles == {f \in 1..Len(tree) : tree[f].py /\ ~tree[f].loads}

\* A file that raises is met before any candidate.
BreaksFirst ==
    \E f \in BrokenFiles : Candidates = {} \/ f < FirstCandidate[1]

ClassAt(p) == tree[p[1]].classes[p[2]]
LastExamined == examined[Len(examined)]

BoundToFirst ==
    /\ pc = "bound"
    /\ Candidates # {}
    /\ app_example = [file |-> FirstCandidate[1], name |-> ClassAt(FirstCandidate).name]
    /\ LastExamined = <<FirstCandidate[1], ClassAt(FirstCandidate).name>>

(* C8 as stated, read on the trees whose .py files all execute: startup    *)
(* ends bound to the first class in scan order with the three methods that *)
(* is not BaseExample, nothing after it examined, or, when the tree holds  *)
(* no such class, fatally with nothing bound.                              *)
C8_TwoOutcomes ==
    (pc # "scan" /\ BrokenFiles = {}) =>
        \/ BoundToFirst
        \/ pc = "fatal" /\ Candidates = {} /\ app_example = NoClass

(* C8 amended: startup ends in exactly one of four ways. Bound to the      *)
(* first class in scan order with the three methods that is not            *)
(* BaseExample, when its constructor returns, nothing after it examined;   *)
(* ValueError when the constructor of that first class raises;             *)
(* the exception of a .py file that raises when executed before any such   *)
(* class is met; NotImplementedError when the tree holds no such class.    *)
(* In the three fatal cases no class is bound.                             *)
C8_FourOutcomes ==
    pc # "scan" =>
        IF BreaksFirst
        THEN pc = "fatal" /\ startupError = "ImportError" /\ app_example = NoClass
             /\ instances = 0
        ELSE IF Candidates = {}
        THEN pc = "fatal" /\ startupError = "NotImplementedError" /\ app_example = NoClass
             /\ instances = 0
        ELSE IF ClassAt(FirstCandidate).ctor = "ok"
        THEN BoundToFirst /\ startupError = "none" /\ instances = 1
        ELSE /\ pc = "fatal" /\ startupError = "ValueError" /\ app_example = NoClass
             /\ instances = 0
             /\ LastExamined = <<FirstCandidate[1], ClassAt(FirstCandidate).name>>

\* BaseExample was passed over, the next class bound, a later candidate never examined.
C8_Witness ==
    /\ pc = "bound"
    /\ Len(tree) = 2
    /\ app_example.file = 1
    /\ \E i \in 1..Len(examined) : examined[i] = <<1, "BaseExample">>
    /\ \E c \in Candidates : c[1] = 2
    /\ \A i \in 1..Len(examined) : examined[i][1] = 1

-----------------------------------------------------------------------------
\* The operations of the example class a run invoked.
Operations == {"rag_chain", "llm_chain", "ingest_docs", "document_search"}
Invoked(r) ==
    IF r.endpoint = "none" THEN {}
    ELSE {i \in 1..Len(r.calls) : r.calls[i].op \in Operations}

(* C9 as stated: after startup there is one instance of the example class, *)
(* the one made at startup; every request invokes its operation on it and  *)
(* no request makes another.                                               *)
C9_OneInstance ==
    /\ instances = 1
    /\ \A i \in Invoked(run) : run.calls[i].inst = 1

(* C9 amended: after startup one class is bound for the life of the        *)
(* process and never rebound; the instance made at startup is not used by  *)
(* any request; every upload, generate and search request that reaches its *)
(* operation makes an instance of its own of the bound class and invokes   *)
(* the operation on it, so a request never uses the instance whose         *)
(* generator is still being streamed.                                      *)
C9_OneClassFreshInstances ==
    [][/\ app_example' = app_example
       /\ app_example \in BoundClasses
       /\ inbox' # inbox =>
            /\ instances' \in {instances, instances + 1}
            /\ \A i \in Invoked(run') :
                   /\ run'.calls[i].inst = instances + 1
                   /\ instances' = instances + 1
                   /\ run'.calls[i].inst # 1
                   /\ run'.calls[i].inst # stream.inst
                   /\ \E j \in CallsOf(run', "new") :
                          j < i /\ run'.calls[j].inst = run'.calls[i].inst]_vars

\* A request invoked its operation while the generator of an earlier one was open.
C9_Witness ==
    /\ stream.state = "open"
    /\ run.endpoint \in {"upload", "search"}
    /\ \E i \in Invoked(run) : run.calls[i].inst > stream.inst

====
